---- MODULE Spec2Model ----
(***************************************************************************)
(* Funnel state and follow-up scheduling engine of the TNETC sales bot     *)
(* (src/bot.py).  The state is the SQLite tables the handlers write        *)
(* (users, purchases, followups), the in-process projection                *)
(* user_engagement, the job queue of pending timers and a wall clock.      *)
(* Updates are dispatched one at a time (the Application is built without  *)
(* concurrent updates), so one handler is one atomic action; a timer       *)
(* callback is another.  The outcome of every Delivery Gateway call        *)
(* (answer, edit, reply, send) and of every random draw is an input.       *)
(* Storage is assumed to succeed under Spec: every persistence operator    *)
(* takes the outcome of its statement as the parameter ok.                 *)
(***************************************************************************)
EXTENDS Integers, Sequences, FiniteSets, TLC

VARIABLES users, purchases, followups, service_views, user_engagement, jobs, now,
          last, out, calls, db, interactions

vars == <<users, purchases, followups, service_views, user_engagement, jobs, now,
          last, out, calls, db, interactions>>

(***************************************************************************)
(* Bounds of the model.                                                    *)
(***************************************************************************)
MaxFollowups == 2
MaxPayments == 1
MaxTime == 24
MaxRouterRows == 1
MaxStoreRows == 1
MaxViews == 2
TickHours == 24

Users == {1, 2}

(* timedelta(hours=24) of schedule_user_followup, in hours *)
FollowupDelay == 24

None == "None"

(***************************************************************************)
(* Callback identifiers.  A button identifier is the pair of the fixed     *)
(* prefix the router tests with startswith and the rest of the string;     *)
(* identifiers compared with == have the empty prefix.                     *)
(***************************************************************************)
Btn(p, a) == [p |-> p, a |-> a]

OfferButtons ==
    {"premium_vip_ea", "special_challenge", "copytrade_lifetime", "standard_trial",
     "standard_monthly", "standard_lifetime", "vip_monthly", "vip_lifetime"}

DetailButtons ==
    {"ea_results", "ea_stats", "ea_how_works", "ea_pricing", "signal_results", "vip_benefits"}

NavButtons ==
    {"show_all_services", "back_to_ea_welcome", "back_to_signal_welcome",
     "back_to_vip_welcome", "back_to_ea_funnel"}

(* plans that a keyboard places behind purchase_: send_ea_pricing and
   create_plan_keyboard (called with the display name of the plan) *)
PurchasePlans == {"monthly", "quarterly", "annual", "copytrade", "Standard Trial", "VIP Monthly"}

(* plans that a keyboard places behind payment_made_ *)
PaymentPlans == {"monthly", "copytrade", "Standard Trial", "premium_vip_ea"}

SetupPlans == {"monthly", "copytrade"}

ResumeServices == {"ea", "vip", "signal", "copytrade", "challenge"}

Buttons ==
    {Btn("", a) : a \in OfferButtons \cup DetailButtons \cup NavButtons
                        \cup {"copytrade_profit_proof"}}
    \cup {Btn("purchase_", a) : a \in PurchasePlans}
    \cup {Btn("payment_made_", a) : a \in PaymentPlans}
    \cup {Btn("setup_guide_", a) : a \in SetupPlans}
    \cup {Btn("resume_", a) : a \in ResumeServices}
    \cup {Btn("followup_", a) : a \in {"questions", "not_interested"}}

Campaigns == {None, "ea_campaign", "signal_campaign", "vip_campaign", "other"}

(***************************************************************************)
(* The inputs of Spec, the follow-up engine: one identifier for every way  *)
(* the router reaches the scheduler, the purchase flow, the follow-up      *)
(* responses, and one identifier of every other kind.                      *)
(***************************************************************************)
EngineButtons ==
    {Btn("", "premium_vip_ea"), Btn("", "special_challenge"), Btn("", "vip_monthly"),
     Btn("purchase_", "monthly"), Btn("purchase_", "VIP Monthly"),
     Btn("payment_made_", "monthly"),
     Btn("followup_", "questions"),
     Btn("", "ea_results"), Btn("", "show_all_services"),
     Btn("setup_guide_", "monthly"), Btn("", "copytrade_profit_proof")}

EngineCampaigns == {None}

EngineUsers == {1}

(***************************************************************************)
(* Inputs of one handler run: whether the callback still carries its       *)
(* message, the outcome of query.answer() in button_click and in the       *)
(* sub-handler, of the first send and of the fallback send, and the random *)
(* draws for the testimonials.                                             *)
(***************************************************************************)
Envs == [msg : BOOLEAN, answer : BOOLEAN, answer2 : BOOLEAN, primary : BOOLEAN,
         fallback : BOOLEAN, rnd : BOOLEAN, rndPlan : BOOLEAN]

HasAnswer2(d) == d.p \in {"purchase_", "payment_made_", "setup_guide_", "resume_", "followup_"}

IsPlanButton(d) ==
    d.p = "" /\ d.a \in {"standard_trial", "standard_monthly", "standard_lifetime",
                         "vip_monthly", "vip_lifetime"}

(* the inputs that a run for identifier d reads; the others are fixed *)
EnvsFor(d) ==
    {e \in Envs :
        /\ (~e.answer => e.answer2 /\ e.primary /\ ~e.rnd /\ ~e.rndPlan /\ e.msg)
        /\ (~HasAnswer2(d) => e.answer2)
        /\ (~e.answer2 => e.primary /\ ~e.rnd)
        /\ (~(IsPlanButton(d) \/ d = Btn("resume_", "copytrade")) => ~e.rndPlan)
        /\ (e.primary /\ ~e.rndPlan /\ e.answer /\ e.answer2 /\ (e.msg \/ ~e.rnd) => e.fallback)}

EnvOk ==
    [msg |-> TRUE, answer |-> TRUE, answer2 |-> TRUE, primary |-> TRUE,
     fallback |-> TRUE, rnd |-> FALSE, rndPlan |-> FALSE]

(* the gateway scenarios of Spec: all calls succeed; the message is gone;
   the first send fails; every send fails; either answer fails *)
EngineEnvs ==
    {EnvOk,
     [EnvOk EXCEPT !.msg = FALSE],
     [EnvOk EXCEPT !.primary = FALSE],
     [EnvOk EXCEPT !.primary = FALSE, !.fallback = FALSE],
     [EnvOk EXCEPT !.answer = FALSE],
     [EnvOk EXCEPT !.answer2 = FALSE]}

(***************************************************************************)
(* The state a handler threads through its calls.  The variable db is the  *)
(* condition of the storage: for each persistence operation, whether its   *)
(* statements succeed.                                                     *)
(***************************************************************************)
PersistenceOps ==
    {"save_user", "log_interaction_to_db", "update_service_view", "record_purchase",
     "record_followup", "update_followup_status", "has_purchased"}

DbOk == [op \in PersistenceOps |-> TRUE]

Cur ==
    [users |-> users, purchases |-> purchases, followups |-> followups,
     service_views |-> service_views, user_engagement |-> user_engagement,
     jobs |-> jobs, out |-> <<>>, calls |-> <<>>, exc |-> FALSE, interactions |-> <<>>]

Commit(S) ==
    /\ users' = S.users
    /\ purchases' = S.purchases
    /\ followups' = S.followups
    /\ service_views' = S.service_views
    /\ user_engagement' = S.user_engagement
    /\ jobs' = S.jobs
    /\ out' = S.out
    /\ calls' = S.calls
    /\ db' = db
    /\ interactions' = S.interactions

Present(S, node) == [S EXCEPT !.out = Append(@, node)]

Called(S, c) == [S EXCEPT !.calls = Append(@, c)]

(* an exception leaves the function that raised it *)
Raise(S) == [S EXCEPT !.exc = TRUE]

Caught(S) == [S EXCEPT !.exc = FALSE]

(***************************************************************************)
(* Persistence Layer.                                                      *)
(***************************************************************************)
(* users.user_id is the primary key: a user has no row or one row *)
NoUser ==
    [exists |-> FALSE, username |-> None, join_date |-> 0, last_interaction |-> 0,
     campaign |-> None, purchased |-> FALSE]

(* update.effective_user.username of the user behind an update *)
UsernameOf(user_id) == "name"

(* variant: the row is written anew on every call (INSERT OR REPLACE) *)
save_user_replace(S, user_id, username, campaign, t, ok) ==
    IF ~ok THEN S
    ELSE [S EXCEPT !.users[user_id] =
             [exists |-> TRUE, username |-> username, join_date |-> t,
              last_interaction |-> t, campaign |-> campaign, purchased |-> FALSE]]

save_user(S, user_id, username, campaign, t, ok) ==
    IF ~ok THEN S
    ELSE IF ~S.users[user_id].exists
         THEN [S EXCEPT !.users[user_id] =
                   [exists |-> TRUE, username |-> username, join_date |-> t,
                    last_interaction |-> t, campaign |-> campaign,
                    purchased |-> FALSE]]
         ELSE [S EXCEPT !.users[user_id].username = username,
                        !.users[user_id].last_interaction = t]

(* where a persistence operation can fail: at the connection, at either
   statement, at the commit *)
StorageFaults == {"none", "connect", "insert", "update", "commit"}

(* a row of the interactions table.  The table is append-only and read by
   no handler: the model keeps the rows the running handler has appended. *)
Interaction(user_id, interaction_type, t) ==
    [user_id |-> user_id, interaction_type |-> interaction_type, timestamp |-> t]

(* variant: every statement is committed as it is executed *)
log_interaction_to_db_autocommit(S, user_id, interaction_type, t, fault) ==
    LET updated == IF S.users[user_id].exists
                   THEN [S EXCEPT !.users[user_id].last_interaction = t]
                   ELSE S
        inserted == [updated EXCEPT !.interactions =
                        Append(@, Interaction(user_id, interaction_type, t))]
    IN CASE fault \in {"connect", "update"} -> S
         [] fault = "insert" -> updated
         [] OTHER -> inserted

(* log_interaction_to_db with the point of failure.  The UPDATE of
   users.last_interaction and the INSERT run in one transaction; when one
   raises, commit is skipped and conn.close() discards what was executed.
   The UPDATE matches the user's row if there is one. *)
log_interaction_to_db_at(S, user_id, interaction_type, t, fault) ==
    LET updated == IF S.users[user_id].exists
                   THEN [S EXCEPT !.users[user_id].last_interaction = t]
                   ELSE S
        inserted == [updated EXCEPT !.interactions =
                        Append(@, Interaction(user_id, interaction_type, t))]
    IN IF fault = "none" THEN inserted ELSE S

log_interaction_to_db(S, user_id, interaction_type, t, ok) ==
    log_interaction_to_db_at(S, user_id, interaction_type, t,
                             IF ok THEN "none" ELSE "connect")

(* record_purchase with the point of failure.  Both statements run in one
   transaction; when one raises, commit is skipped and conn.close() discards
   what was executed.  The UPDATE matches the user's row if there is one. *)
record_purchase_at(S, user_id, plan_code, price, fault) ==
    LET S1 == Called(S, [fn |-> "record_purchase", user_id |-> user_id, arg |-> plan_code])
        inserted == [S1 EXCEPT !.purchases =
                        Append(@, [user_id |-> user_id, plan_code |-> plan_code,
                                   price |-> price])]
        updated == [inserted EXCEPT !.users[user_id].purchased =
                        IF S.users[user_id].exists THEN TRUE ELSE @]
        work == CASE fault \in {"connect", "insert"} -> S1
                  [] fault = "update" -> inserted
                  [] OTHER -> updated
    IN IF fault = "none" THEN work ELSE S1

(* variant: the Purchase row is inserted, the user's flag is left alone *)
record_purchase_noflag(S, user_id, plan_code, price, ok) ==
    LET S1 == Called(S, [fn |-> "record_purchase", user_id |-> user_id, arg |-> plan_code])
    IN IF ~ok THEN S1
       ELSE [S1 EXCEPT
               !.purchases = Append(@, [user_id |-> user_id, plan_code |-> plan_code,
                                        price |-> price])]

(* variant: a plan without a price in the table is not recorded *)
record_purchase_priced(S, user_id, plan_code, price, ok) ==
    record_purchase_at(S, user_id, plan_code, price,
                       IF ok /\ price # "Unknown" THEN "none" ELSE "connect")

record_purchase(S, user_id, plan_code, price, ok) ==
    record_purchase_at(S, user_id, plan_code, price, IF ok THEN "none" ELSE "connect")

record_followup(S, user_id, service, scheduled_date, ok) ==
    IF ~ok THEN S
    ELSE [S EXCEPT !.followups =
             Append(@, [user_id |-> user_id, service |-> service,
                        scheduled_date |-> scheduled_date,
                        status |-> "scheduled", response |-> None])]

(* variant: the WHERE clause does not name the user *)
UpdateRow_anyuser(row, user_id, status, response) ==
    IF row.status = "scheduled"
    THEN [row EXCEPT !.status = status,
                     !.response = IF response # None THEN response ELSE @]
    ELSE row

UpdateRow(row, user_id, status, response) ==
    IF row.user_id = user_id /\ row.status = "scheduled"
    THEN [row EXCEPT !.status = status,
                     !.response = IF response # None THEN response ELSE @]
    ELSE row

(* variant: only the user's most recent scheduled row is updated *)
update_followup_status_latest(S, user_id, status, response, ok) ==
    LET S1 == Called(S, [fn |-> "update_followup_status", user_id |-> user_id,
                         arg |-> status])
        sched == {i \in DOMAIN S.followups :
                     /\ S.followups[i].user_id = user_id
                     /\ S.followups[i].status = "scheduled"}
    IN IF ~ok THEN S1
       ELSE [S1 EXCEPT !.followups =
                [i \in DOMAIN @ |->
                    IF i \in sched /\ \A j \in sched : j <= i
                    THEN UpdateRow(@[i], user_id, status, response)
                    ELSE @[i]]]

(* variant: the update is not restricted to rows in status scheduled *)
update_followup_status_anystatus(S, user_id, status, response, ok) ==
    LET S1 == Called(S, [fn |-> "update_followup_status", user_id |-> user_id,
                         arg |-> status])
    IN IF ~ok THEN S1
       ELSE [S1 EXCEPT !.followups =
                [i \in DOMAIN @ |->
                    IF @[i].user_id = user_id
                    THEN [@[i] EXCEPT !.status = status,
                                      !.response = IF response # None
                                                   THEN response ELSE @]
                    ELSE @[i]]]

update_followup_status(S, user_id, status, response, ok) ==
    LET S1 == Called(S, [fn |-> "update_followup_status", user_id |-> user_id,
                         arg |-> status])
    IN IF ~ok THEN S1
       ELSE [S1 EXCEPT !.followups =
                [i \in DOMAIN @ |-> UpdateRow(@[i], user_id, status, response)]]

(* variant: the flag is reported whatever the outcome of the query *)
has_purchased_unguarded(S, user_id, ok) ==
    S.users[user_id].exists /\ S.users[user_id].purchased

has_purchased(S, user_id, ok) ==
    ok /\ S.users[user_id].exists /\ S.users[user_id].purchased

ViewServices == {"ea", "vip"}

(* a row of services_viewed as the INSERT makes it: view_count takes the
   column default 1 *)
NewView(user_id, service, t) ==
    [user_id |-> user_id, service |-> service, view_count |-> 1, last_viewed |-> t]

(* variant: no SELECT before the INSERT *)
update_service_view_insert(S, user_id, service, t, ok) ==
    IF ~ok THEN S
    ELSE [S EXCEPT !.service_views = Append(@, NewView(user_id, service, t))]

update_service_view(S, user_id, service, t, ok) ==
    IF ~ok THEN S
    ELSE IF \A i \in DOMAIN S.service_views :
                ~(S.service_views[i].user_id = user_id
                    /\ S.service_views[i].service = service)
         THEN [S EXCEPT !.service_views = Append(@, NewView(user_id, service, t))]
         ELSE [S EXCEPT !.service_views =
                   [i \in DOMAIN @ |->
                       IF @[i].user_id = user_id /\ @[i].service = service
                       THEN [@[i] EXCEPT !.view_count = @ + 1, !.last_viewed = t]
                       ELSE @[i]]]

(***************************************************************************)
(* Engagement Tracker.  data is the payload dictionary: a function from    *)
(* its keys to their values.                                               *)
(***************************************************************************)
Range(f) == {f[i] : i \in DOMAIN f}

NoData == <<>>

PriceOf(plan_code) ==
    CASE plan_code = "monthly" -> "$200"
      [] plan_code = "quarterly" -> "$500"
      [] plan_code = "annual" -> "$1500"
      [] plan_code = "copytrade" -> "$500"
      [] plan_code = "standard_trial" -> "Free Trial"
      [] plan_code = "standard_monthly" -> "$66/month"
      [] plan_code = "standard_lifetime" -> "$300"
      [] plan_code = "vip_monthly" -> "$300/month"
      [] plan_code = "vip_lifetime" -> "$2000"
      [] OTHER -> "Unknown"

NoEngagement == [present |-> FALSE, services_viewed |-> <<>>, purchased |-> FALSE]

NewEngagement == [present |-> TRUE, services_viewed |-> <<>>, purchased |-> FALSE]

(* the payload of a call that passes no data: data=None, told apart from
   every dictionary by its single key *)
NoPayload == [x \in {None} |-> None]

(* evaluating  key in data: TypeError when data is None *)
KeyTestRaises(data) == data = NoPayload

(* variant: a viewed service is appended to the projection without the
   membership test *)
log_user_interaction_append(S, user_id, interaction_type, data, t) ==
    LET S0 == save_user(S, user_id, UsernameOf(user_id), None, t, db.save_user)
        S1 == log_interaction_to_db(S0, user_id, interaction_type, t,
                                    db.log_interaction_to_db)
        S2 == IF ~S1.user_engagement[user_id].present
              THEN [S1 EXCEPT !.user_engagement[user_id] = NewEngagement]
              ELSE S1
    IN IF interaction_type = "service_view" /\ "service" \in DOMAIN data
       THEN update_service_view(
                [S2 EXCEPT !.user_engagement[user_id].services_viewed =
                     Append(@, data["service"])],
                user_id, data["service"], t, db.update_service_view)
       ELSE S2

log_user_interaction(S, user_id, interaction_type, data, t) ==
    LET S0 == save_user(S, user_id, UsernameOf(user_id), None, t, db.save_user)
        S1 == log_interaction_to_db(S0, user_id, interaction_type, t,
                                    db.log_interaction_to_db)
        S2 == IF ~S1.user_engagement[user_id].present
              THEN [S1 EXCEPT !.user_engagement[user_id] = NewEngagement]
              ELSE S1
    IN IF interaction_type = "service_view"
       THEN IF KeyTestRaises(data) THEN Raise(S2)
            ELSE IF "service" \in DOMAIN data
            THEN LET service == data["service"]
                     S3 == IF service \notin Range(S2.user_engagement[user_id].services_viewed)
                           THEN [S2 EXCEPT !.user_engagement[user_id].services_viewed =
                                     Append(@, service)]
                           ELSE S2
                 IN update_service_view(S3, user_id, service, t, db.update_service_view)
            ELSE S2
       ELSE IF interaction_type = "payment_confirmation"
       THEN LET S3 == [S2 EXCEPT !.user_engagement[user_id].purchased = TRUE]
            IN IF KeyTestRaises(data) THEN Raise(S3)
               ELSE IF "plan" \in DOMAIN data
               THEN record_purchase(S3, user_id, data["plan"], PriceOf(data["plan"]), db.record_purchase)
               ELSE S3
       ELSE S2

(***************************************************************************)
(* Job queue.  A job is a name, the time it is due and its callback.       *)
(* get_jobs_by_name returns the jobs whose name equals the argument.       *)
(***************************************************************************)
FollowupJobName(user_id, service) == <<"followup", user_id, service>>

(* the name handle_payment_confirmation looks up: f"followup_{user_id}" *)
CancelJobName(user_id) == <<"followup", user_id>>

run_once(S, callback, due, name) ==
    [S EXCEPT !.jobs = Append(@, [name |-> name, due |-> due, callback |-> callback])]

get_jobs_by_name(S, name) == {i \in DOMAIN S.jobs : S.jobs[i].name = name}

RECURSIVE RemoveAt(_, _)
RemoveAt(q, I) ==
    IF q = <<>> THEN <<>>
    ELSE LET rest == RemoveAt(Tail(q), {i - 1 : i \in I \ {1}})
         IN IF 1 \in I THEN rest ELSE <<Head(q)>> \o rest

schedule_removal(S, I) == [S EXCEPT !.jobs = RemoveAt(@, I)]

(***************************************************************************)
(* Follow-up Scheduler.                                                    *)
(***************************************************************************)
Node(kind, arg) == [node |-> kind, arg |-> arg]

(* the callback schedule_user_followup hands to run_once:
   lambda ctx: send_testimonial_to_user(ctx, chat_id, service) *)
FollowupCallback == "lambda_send_testimonial_to_user"

(* variant: no has_purchased check before the row and the timer *)
schedule_user_followup_nocheck(S, user_id, service, t) ==
    LET S1 == Called(S, [fn |-> "schedule_user_followup", user_id |-> user_id,
                         arg |-> service])
        S2 == record_followup(S1, user_id, service, t + FollowupDelay, db.record_followup)
    IN run_once(S2, FollowupCallback, t + FollowupDelay,
                FollowupJobName(user_id, service))

schedule_user_followup(S, user_id, service, t) ==
    LET S1 == Called(S, [fn |-> "schedule_user_followup", user_id |-> user_id,
                         arg |-> service])
    IN IF has_purchased(S1, user_id, db.has_purchased) THEN S1
       ELSE LET scheduled_date == t + FollowupDelay
                S2 == record_followup(S1, user_id, service, scheduled_date, db.record_followup)
            IN run_once(S2, FollowupCallback, t + FollowupDelay,
                        FollowupJobName(user_id, service))

(* The outcomes of the gateway calls of a timer callback: of the
   send_message call, and of each send_photo call that is made (at most the
   two images get_random_testimonials returns; a call that raises is the
   last one). *)
PhotoOutcomes == {<<>>, <<TRUE>>, <<FALSE>>, <<TRUE, TRUE>>, <<TRUE, FALSE>>}

FireOutcomes ==
    {[message |-> FALSE, photos |-> <<>>]}
    \cup {[message |-> TRUE, photos |-> p] : p \in PhotoOutcomes}

PhotoRaised(photos) == \E i \in DOMAIN photos : ~photos[i]

(* the images that reached the user: those before the first failing call *)
SendPhotos(S, service, photos) ==
    LET n == Cardinality({i \in DOMAIN photos : \A k \in 1..i : photos[k]})
    IN [S EXCEPT !.out = @ \o [k \in 1..n |-> Node("followup_photo", service)]]

(* variant: the images are sent without a try block of their own *)
schedule_followup_flat(S, user_id, service, send) ==
    IF has_purchased(S, user_id, db.has_purchased) THEN S
    ELSE IF send.message /\ ~PhotoRaised(send.photos)
         THEN update_followup_status(
                  SendPhotos(Present(S, Node("followup_message", service)),
                             service, send.photos),
                  user_id, "sent", None, db.update_followup_status)
         ELSE update_followup_status(
                  IF send.message
                  THEN SendPhotos(Present(S, Node("followup_message", service)),
                                  service, send.photos)
                  ELSE S,
                  user_id, "failed", None, db.update_followup_status)

(* schedule_followup(context): the fire procedure.  A send_message that
   raises is marked failed; a send_photo that raises is caught by the inner
   try and ends the images. *)
schedule_followup(S, user_id, service, send) ==
    IF has_purchased(S, user_id, db.has_purchased) THEN S
    ELSE IF send.message
         THEN update_followup_status(
                  SendPhotos(Present(S, Node("followup_message", service)),
                             service, send.photos),
                  user_id, "sent", None, db.update_followup_status)
         ELSE update_followup_status(S, user_id, "failed", None, db.update_followup_status)

(* send_testimonial_to_user(context, chat_id, service): every error is caught *)
send_testimonial_to_user(S, service, send) ==
    IF send THEN Present(S, Node("testimonial", service)) ELSE S

(* variant: chat_id is bound, the lambda body runs send_testimonial_to_user *)
FollowupLambda_bound(S, job, send) ==
    send_testimonial_to_user(S, job.name[3], send.message)

(* Evaluating the lambda body: chat_id is neither a local of
   schedule_user_followup nor a module global, so the call raises NameError
   before send_testimonial_to_user is entered. *)
FollowupLambda(S, job, send) == Raise(S)

(* Job.run: the callback runs; an exception goes to error_handler with no
   update, which only logs it. *)
RunJob(S, job, send) ==
    IF job.callback = FollowupCallback
    THEN Caught(FollowupLambda(S, job, send))
    ELSE schedule_followup(S, job.name[2], job.name[3], send)

(***************************************************************************)
(* Funnel Router: the nodes.  env.primary is the outcome of the first      *)
(* Delivery Gateway call of a node, env.fallback of the one made after it  *)
(* raised.                                                                 *)
(***************************************************************************)
SendWithFallback(S, node, env) ==
    IF env.primary \/ env.fallback THEN Present(S, node) ELSE S

SendOnce(S, node, env) == IF env.primary THEN Present(S, node) ELSE S

(* regular_welcome reached from a callback: the chat id is read from
   callback_query.message *)
regular_welcome(S, user_id, env, t) ==
    IF ~env.msg THEN Raise(S)
    ELSE LET S1 == log_user_interaction(S, user_id, "welcome", [source |-> "regular"], t)
             S2 == save_user(S1, user_id, UsernameOf(user_id), None, t, db.save_user)
         IN SendWithFallback(S2, Node("entry", "default"), env)

ea_focused_welcome(S, env) == SendWithFallback(S, Node("entry", "ea"), env)

signal_focused_welcome(S, env) == SendWithFallback(S, Node("entry", "signal"), env)

vip_focused_welcome(S, env) == SendWithFallback(S, Node("entry", "vip"), env)

(* variant: the offer is withheld from a user who has purchased *)
send_premium_vip_ea_details_gated(S, env) ==
    IF S.purchases # <<>> THEN S
    ELSE SendWithFallback(S, Node("offer", "premium_vip_ea"), env)

send_premium_vip_ea_details(S, env) ==
    SendWithFallback(S, Node("offer", "premium_vip_ea"), env)

(* with the message present the 30% branch reads callback_query._context,
   which raises, and the except branch sends the text a second time *)
send_plan_details(S, plan_code, env) ==
    IF ~env.msg THEN SendOnce(S, Node("offer", plan_code), env)
    ELSE IF env.primary
         THEN LET S1 == Present(S, Node("offer", plan_code))
              IN IF env.rndPlan /\ env.fallback
                 THEN Present(S1, Node("offer", plan_code))
                 ELSE S1
         ELSE IF env.fallback THEN Present(S, Node("offer", plan_code)) ELSE S

send_ea_results(S, env) == SendWithFallback(S, Node("detail", "ea_results"), env)

send_ea_performance(S, env) ==
    IF ~env.msg THEN S ELSE SendWithFallback(S, Node("detail", "ea_stats"), env)

send_ea_explanation(S, env) ==
    IF ~env.msg THEN S ELSE SendWithFallback(S, Node("detail", "ea_how_works"), env)

send_ea_pricing(S, env) ==
    IF ~env.msg THEN S ELSE SendWithFallback(S, Node("detail", "ea_pricing"), env)

send_signal_results(S, env) == SendWithFallback(S, Node("detail", "signal_results"), env)

send_vip_benefits(S, env) == SendWithFallback(S, Node("detail", "vip_benefits"), env)

(***************************************************************************)
(* Purchase flow.                                                          *)
(***************************************************************************)
(* plan_details.get(plan, {}).get('service', 'ea') *)
PlanService(plan) ==
    CASE plan \in {"monthly", "quarterly", "annual"} -> "ea"
      [] plan = "copytrade" -> "copytrade"
      [] OTHER -> "ea"

handle_purchase_selection(S, user_id, plan, env, t) ==
    IF ~env.answer2 THEN Raise(S)
    ELSE LET S1 == log_user_interaction(S, user_id, "purchase_intent", [plan |-> plan], t)
             service == PlanService(plan)
         IN IF env.primary
            THEN schedule_user_followup(Present(S1, Node("payment_instructions", plan)),
                                        user_id, service, t)
            ELSE S1

(* the price table of handle_payment_confirmation *)
PaymentPrice(plan) ==
    CASE plan = "monthly" -> "$200"
      [] plan = "quarterly" -> "$500"
      [] plan = "annual" -> "$1500"
      [] plan = "copytrade" -> "$500"
      [] plan = "standard_trial" -> "Free Trial"
      [] plan = "standard_monthly" -> "$66/month"
      [] plan = "standard_lifetime" -> "$300"
      [] plan = "vip_monthly" -> "$300/month"
      [] plan = "vip_lifetime" -> "$2000"
      [] OTHER -> "Unknown"

(* variant: the cancellation step without the status update *)
CancelFollowups_jobsonly(S, user_id) ==
    LET S2 == Called(S, [fn |-> "get_jobs_by_name", user_id |-> user_id, arg |-> None])
        current_jobs == get_jobs_by_name(S2, CancelJobName(user_id))
    IN schedule_removal(S2, current_jobs)

(* the cancellation step of handle_payment_confirmation *)
CancelFollowups(S, user_id) ==
    LET S1 == update_followup_status(S, user_id, "canceled", "user_purchased", db.update_followup_status)
        S2 == Called(S1, [fn |-> "get_jobs_by_name", user_id |-> user_id, arg |-> None])
        current_jobs == get_jobs_by_name(S2, CancelJobName(user_id))
    IN schedule_removal(S2, current_jobs)

handle_payment_confirmation(S, user_id, plan, env, t) ==
    IF ~env.answer2 THEN Raise(S)
    ELSE LET S1 == log_user_interaction(S, user_id, "payment_confirmation",
                                        [plan |-> plan], t)
             S2 == record_purchase(S1, user_id, plan, PaymentPrice(plan), db.record_purchase)
             S3 == CancelFollowups(S2, user_id)
         IN SendOnce(S3, Node("payment_confirmed", plan), env)

send_setup_guide(S, user_id, plan, env, t) ==
    IF ~env.answer2 THEN Raise(S)
    ELSE LET S1 == log_user_interaction(S, user_id, "setup_guide_request",
                                        [plan |-> plan], t)
         IN SendOnce(S1, Node("setup_guide", IF plan = "copytrade" THEN "copytrade" ELSE "ea"),
                     env)

handle_followup_response(S, user_id, d, env, t) ==
    IF ~env.answer2 THEN Raise(S)
    ELSE LET S1 == log_user_interaction(S, user_id, "followup_response",
                                        [response |-> d], t)
         IN IF d.p = "resume_"
            THEN LET service == d.a
                     S2 == update_followup_status(S1, user_id, "responded",
                                                  "resume_service", db.update_followup_status)
                 IN CASE service = "ea" -> ea_focused_welcome(S2, env)
                      [] service = "vip" -> vip_focused_welcome(S2, env)
                      [] service = "signal" -> signal_focused_welcome(S2, env)
                      [] service = "copytrade" ->
                            send_plan_details(S2, "Copytrade Lifetime", env)
                      [] OTHER -> regular_welcome(S2, user_id, env, t)
            ELSE IF d.a = "questions"
            THEN SendOnce(update_followup_status(S1, user_id, "responded",
                                                 "has_questions", db.update_followup_status),
                          Node("followup_reply", "questions"), env)
            ELSE IF d.a = "not_interested"
            THEN SendOnce(update_followup_status(S1, user_id, "responded",
                                                 "not_interested", db.update_followup_status),
                          Node("followup_reply", "not_interested"), env)
            ELSE S1

(***************************************************************************)
(* Funnel Router: button_click.                                            *)
(***************************************************************************)
(* the block for a callback whose message is gone: the navigation buttons
   are served here and the handler returns *)
NavExpired(S, user_id, a, env, t) ==
    CASE a = "show_all_services" -> regular_welcome(S, user_id, env, t)
      [] a = "back_to_ea_welcome" -> ea_focused_welcome(S, env)
      [] a = "back_to_signal_welcome" -> signal_focused_welcome(S, env)
      [] a = "back_to_vip_welcome" -> vip_focused_welcome(S, env)
      [] a = "back_to_ea_funnel" -> ea_focused_welcome(S, env)

(* the special_challenge branch: the follow-up is scheduled inside the try,
   after the send *)
SpecialChallenge(S, user_id, env, t) ==
    IF env.primary
    THEN schedule_user_followup(Present(S, Node("offer", "special_challenge")),
                                user_id, "challenge", t)
    ELSE IF env.fallback THEN Present(S, Node("offer_retry", "special_challenge")) ELSE S

(* variant: the detail identifiers are handled like offers *)
Dispatch_detail_offer(S, user_id, d, env, t) ==
    IF d.p = "" /\ d.a \in DetailButtons
    THEN schedule_user_followup(SendOnce(S, Node("detail", d.a), env), user_id, "ea", t)
    ELSE S

(* the if/elif chain of button_click *)
Dispatch(S, user_id, d, env, t) ==
    CASE d = Btn("", "premium_vip_ea") ->
            schedule_user_followup(send_premium_vip_ea_details(S, env), user_id, "vip_ea", t)
      [] d = Btn("", "special_challenge") -> SpecialChallenge(S, user_id, env, t)
      [] d = Btn("", "copytrade_lifetime") ->
            schedule_user_followup(SendOnce(S, Node("offer", "copytrade_lifetime"), env),
                                   user_id, "copytrade", t)
      [] d = Btn("", "standard_trial") ->
            schedule_user_followup(send_plan_details(S, "Standard Trial", env),
                                   user_id, "standard", t)
      [] d = Btn("", "standard_monthly") ->
            schedule_user_followup(send_plan_details(S, "Standard Monthly", env),
                                   user_id, "standard", t)
      [] d = Btn("", "standard_lifetime") ->
            schedule_user_followup(send_plan_details(S, "Standard Lifetime", env),
                                   user_id, "standard", t)
      [] d = Btn("", "vip_monthly") ->
            schedule_user_followup(send_plan_details(S, "VIP Monthly", env),
                                   user_id, "vip", t)
      [] d = Btn("", "vip_lifetime") ->
            schedule_user_followup(send_plan_details(S, "VIP Lifetime", env),
                                   user_id, "vip", t)
      [] d = Btn("", "ea_results") -> send_ea_results(S, env)
      [] d = Btn("", "ea_stats") -> send_ea_performance(S, env)
      [] d = Btn("", "ea_how_works") -> send_ea_explanation(S, env)
      [] d = Btn("", "ea_pricing") -> send_ea_pricing(S, env)
      [] d = Btn("", "signal_results") -> send_signal_results(S, env)
      [] d = Btn("", "vip_benefits") -> send_vip_benefits(S, env)
      [] d = Btn("", "show_all_services") -> regular_welcome(S, user_id, env, t)
      [] d = Btn("", "back_to_ea_welcome") -> ea_focused_welcome(S, env)
      [] d = Btn("", "back_to_signal_welcome") -> signal_focused_welcome(S, env)
      [] d = Btn("", "back_to_vip_welcome") ->
            ea_focused_welcome(vip_focused_welcome(S, env), env)
      [] d.p = "purchase_" -> handle_purchase_selection(S, user_id, d.a, env, t)
      [] d.p = "payment_made_" -> handle_payment_confirmation(S, user_id, d.a, env, t)
      [] d.p = "setup_guide_" -> send_setup_guide(S, user_id, d.a, env, t)
      [] d.p \in {"resume_", "followup_"} -> handle_followup_response(S, user_id, d, env, t)
      [] OTHER -> S

(* the 20% testimonial after the chain: its job name reads
   query.message.chat_id *)
RandomTestimonial(S, env) ==
    IF env.rnd /\ ~env.msg THEN Raise(S) ELSE S

(* variant: the except branch is missing and the exception leaves the
   handler *)
Apology_uncaught(S, env) == S

(* the except branch of button_click: query.edit_message_text *)
Apology(S, env) ==
    IF env.msg /\ env.fallback THEN Present(Caught(S), Node("apology", "")) ELSE Caught(S)

(* the try block of button_click *)
button_click_body(S, user_id, d, env, t) ==
    IF ~env.answer THEN Raise(S)
    ELSE LET S1 == log_user_interaction(S, user_id, "button_click",
                                        [selection |-> d], t)
         IN IF ~env.msg /\ d.p = "" /\ d.a \in NavButtons
            THEN NavExpired(S1, user_id, d.a, env, t)
            ELSE LET R == Dispatch(S1, user_id, d, env, t)
                 IN IF R.exc THEN R ELSE RandomTestimonial(R, env)

button_click(S, user_id, d, env, t) ==
    LET body == button_click_body(S, user_id, d, env, t)
    IN IF body.exc THEN Apology(body, env) ELSE body

(* variant: the entry command ignores its token *)
start_default_only(S, user_id, campaign, env, t) ==
    LET S1 == save_user(S, user_id, UsernameOf(user_id), campaign, t, db.save_user)
    IN SendWithFallback(S1, Node("entry", "default"), env)

(* start: the entry command; update.message is present *)
start(S, user_id, campaign, env, t) ==
    LET S1 == save_user(S, user_id, UsernameOf(user_id), campaign, t, db.save_user)
        S2 == log_user_interaction(S1, user_id, "start_command",
                                   [campaign |-> campaign], t)
    IN CASE campaign = "ea_campaign" -> ea_focused_welcome(S2, env)
         [] campaign = "signal_campaign" -> signal_focused_welcome(S2, env)
         [] campaign = "vip_campaign" -> vip_focused_welcome(S2, env)
         [] OTHER ->
              SendWithFallback(
                  save_user(log_user_interaction(S2, user_id, "welcome",
                                                 [source |-> "regular"], t),
                            user_id, UsernameOf(user_id), None, t, db.save_user),
                  Node("entry", "default"), env)

(***************************************************************************)
(* The state machine.                                                      *)
(***************************************************************************)
Event(op, user, data, due) == [op |-> op, user |-> user, data |-> data, due |-> due]

NoEvent == Event("idle", 0, Btn("", ""), 0)

(* the dispatcher waits for the next update or the next due job *)
Idling == last = NoEvent

Init ==
    /\ users = [u \in Users |-> NoUser]
    /\ purchases = <<>>
    /\ followups = <<>>
    /\ service_views = <<>>
    /\ user_engagement = [u \in Users |-> NoEngagement]
    /\ jobs = <<>>
    /\ now = 0
    /\ last = NoEvent
    /\ out = <<>>
    /\ calls = <<>>
    /\ db = DbOk
    /\ interactions = <<>>

SchedulingButton(d) == (d.p = "" /\ d.a \in OfferButtons) \/ d.p = "purchase_"

StartEnvs == {EnvOk, [EnvOk EXCEPT !.primary = FALSE, !.fallback = FALSE]}

Start(u, campaign, env) ==
    /\ Idling
    /\ Commit(start(Cur, u, campaign, env, now))
    /\ last' = Event("start", u, Btn("start", campaign), 0)
    /\ now' = now

ButtonClick(u, d, env) ==
    /\ Idling
    /\ SchedulingButton(d) => Len(followups) < MaxFollowups
    /\ d.p = "payment_made_" => Len(purchases) < 2 * MaxPayments
    /\ Commit(button_click(Cur, u, d, env, now))
    /\ last' = Event("button_click", u, d, 0)
    /\ now' = now

(* a pending job that is due runs and leaves the queue *)
FireTimer(i, send) ==
    /\ Idling
    /\ i \in DOMAIN jobs
    /\ jobs[i].due <= now
    /\ Commit(RunJob(schedule_removal(Cur, {i}), jobs[i], send))
    /\ last' = Event("timer", jobs[i].name[2], Btn("job", jobs[i].name[3]), jobs[i].due)
    /\ now' = now

(* the handler or callback has returned: what it sent and called is no
   longer observed *)
Return ==
    /\ ~Idling
    /\ last' = NoEvent
    /\ out' = <<>>
    /\ calls' = <<>>
    /\ interactions' = <<>>
    /\ UNCHANGED <<users, purchases, followups, service_views, user_engagement, jobs, now, db>>

Tick ==
    /\ Idling
    /\ now + TickHours <= MaxTime
    /\ now' = now + TickHours
    /\ UNCHANGED <<users, purchases, followups, service_views, user_engagement, jobs,
                   last, out, calls, db, interactions>>

(* the process stops and starts again: the job queue and the projection
   live in memory *)
Restart ==
    /\ Idling
    /\ jobs' = <<>>
    /\ user_engagement' = [u \in Users |-> NoEngagement]
    /\ UNCHANGED <<users, purchases, followups, service_views, now, last, out, calls, db,
                   interactions>>

Next ==
    \/ \E u \in EngineUsers, c \in EngineCampaigns, env \in StartEnvs : Start(u, c, env)
    \/ \E u \in EngineUsers, d \in EngineButtons, env \in EngineEnvs :
            ButtonClick(u, d, env)
    \/ \E i \in 1..MaxFollowups, send \in FireOutcomes : FireTimer(i, send)
    \/ Return
    \/ Tick
    \/ Restart

Spec == Init /\ [][Next]_vars

(***************************************************************************)
(* SpecRouter: the Funnel Router over every callback identifier a keyboard *)
(* carries and every outcome of the gateway calls and random draws a run   *)
(* reads.  The clock stands still, so the registered timers stay pending;  *)
(* a payment is confirmed once.                                            *)
(***************************************************************************)
RouterClick(u, d, env) ==
    /\ Idling
    /\ SchedulingButton(d) => Len(followups) < MaxRouterRows
    /\ d.p = "payment_made_" => purchases = <<>>
    /\ Commit(button_click(Cur, u, d, env, now))
    /\ last' = Event("button_click", u, d, 0)
    /\ now' = now

NextRouter ==
    \/ \E u \in EngineUsers, d \in Buttons :
            \E env \in EnvsFor(d) : RouterClick(u, d, env)
    \/ Return

SpecRouter == Init /\ [][NextRouter]_vars

(***************************************************************************)
(* SpecEntry: entry commands only, by every user with every campaign       *)
(* token, with the reply succeeding, failing once, or failing twice.       *)
(***************************************************************************)
EntryEnvs ==
    {EnvOk,
     [EnvOk EXCEPT !.primary = FALSE],
     [EnvOk EXCEPT !.primary = FALSE, !.fallback = FALSE]}

NextEntry ==
    \/ \E u \in Users, c \in Campaigns, env \in EntryEnvs : Start(u, c, env)
    \/ Return

SpecEntry == Init /\ [][NextEntry]_vars

(***************************************************************************)
(* SpecStore: the Persistence Layer called directly, one operation per     *)
(* step, in any order, each with its storage succeeding or failing.  What  *)
(* the operation returned, or that it raised, is recorded in out.          *)
(***************************************************************************)
StoreUsernames == {"name", "renamed"}

StoreCampaigns == {None, "ea_campaign"}

StoreServices == {"ea", "vip"}

Outcome(ok) == IF ok THEN "ok" ELSE "error"

Returned(S, value) ==
    Present(S, Node(IF S.exc THEN "raised" ELSE "returned", value))

PyBool(b) == IF b THEN "True" ELSE "False"

RECURSIVE SumViews(_)
SumViews(rows) ==
    IF rows = <<>> THEN 0 ELSE Head(rows).view_count + SumViews(Tail(rows))

StoreSaveUser(u, username, campaign, ok) ==
    /\ Idling
    /\ Commit(Returned(save_user(Cur, u, username, campaign, now, ok), None))
    /\ last' = Event("save_user", u, Btn(Outcome(ok), username), 0)
    /\ now' = now

StoreLogInteraction(u, fault) ==
    /\ Idling
    /\ Commit(Returned(log_interaction_to_db_at(Cur, u, "button_click", now, fault), None))
    /\ last' = Event("log_interaction_to_db", u, Btn(Outcome(fault = "none"), fault), 0)
    /\ now' = now

StoreUpdateServiceView(u, service, ok) ==
    /\ Idling
    /\ SumViews(service_views) < MaxViews
    /\ Commit(Returned(update_service_view(Cur, u, service, now, ok), None))
    /\ last' = Event("update_service_view", u, Btn(Outcome(ok), service), 0)
    /\ now' = now

StoreRecordPurchase(u, plan, fault) ==
    /\ Idling
    /\ Len(purchases) < MaxPayments
    /\ Commit(Returned(record_purchase_at(Cur, u, plan, PriceOf(plan), fault), None))
    /\ last' = Event("record_purchase", u, Btn(Outcome(fault = "none"), plan), 0)
    /\ now' = now

StoreRecordFollowup(u, service, ok) ==
    /\ Idling
    /\ Len(followups) < MaxStoreRows
    /\ Commit(Returned(record_followup(Cur, u, service, now + FollowupDelay, ok), None))
    /\ last' = Event("record_followup", u, Btn(Outcome(ok), service), 0)
    /\ now' = now

StoreUpdateFollowupStatus(u, status, ok) ==
    /\ Idling
    /\ Commit(Returned(update_followup_status(Cur, u, status, None, ok), None))
    /\ last' = Event("update_followup_status", u, Btn(Outcome(ok), status), 0)
    /\ now' = now

StoreHasPurchased(u, ok) ==
    /\ Idling
    /\ Commit(Returned(Cur, PyBool(has_purchased(Cur, u, ok))))
    /\ last' = Event("has_purchased", u, Btn(Outcome(ok), None), 0)
    /\ now' = now

NextStore ==
    \/ \E u \in EngineUsers, n \in StoreUsernames, c \in StoreCampaigns, ok \in BOOLEAN :
            StoreSaveUser(u, n, c, ok)
    \/ \E u \in EngineUsers, fault \in StorageFaults : StoreLogInteraction(u, fault)
    \/ \E u \in EngineUsers, s \in StoreServices, ok \in BOOLEAN :
            StoreUpdateServiceView(u, s, ok)
    \/ \E u \in EngineUsers, fault \in StorageFaults :
            StoreRecordPurchase(u, "monthly", fault)
    \/ \E u \in EngineUsers, s \in StoreServices, ok \in BOOLEAN :
            StoreRecordFollowup(u, s, ok)
    \/ \E u \in EngineUsers, ok \in BOOLEAN : StoreUpdateFollowupStatus(u, "sent", ok)
    \/ \E u \in EngineUsers, ok \in BOOLEAN : StoreHasPurchased(u, ok)
    \/ Return
    \/ Tick

SpecStore == Init /\ [][NextStore]_vars

(***************************************************************************)
(* SpecFault: the handlers of the follow-up engine while the storage of    *)
(* one persistence operation, or of all of them, is failing; the gateway   *)
(* works and the clock stands still.                                       *)
(***************************************************************************)
FaultButtons ==
    {Btn("", "special_challenge"), Btn("payment_made_", "monthly"),
     Btn("followup_", "questions")}

DbFaults ==
    {DbOk, [op \in PersistenceOps |-> FALSE]}
    \cup {[DbOk EXCEPT ![op] = FALSE] : op \in PersistenceOps}

(* the storage breaks or recovers between two updates *)
StorageFault(f) ==
    /\ Idling
    /\ f # db
    /\ db' = f
    /\ UNCHANGED <<users, purchases, followups, service_views, user_engagement, jobs, now,
                   last, out, calls, interactions>>

FaultClick(u, d) ==
    /\ Idling
    /\ SchedulingButton(d) => Len(followups) < MaxFollowups /\ Len(jobs) < MaxFollowups
    /\ d.p = "payment_made_" => Len(purchases) < 2 * MaxPayments
    /\ Commit(button_click(Cur, u, d, EnvOk, now))
    /\ last' = Event("button_click", u, d, 0)
    /\ now' = now

NextFault ==
    \/ \E f \in DbFaults : StorageFault(f)
    \/ \E u \in EngineUsers, d \in FaultButtons : FaultClick(u, d)
    \/ Return

SpecFault == Init /\ [][NextFault]_vars

(***************************************************************************)
(* SpecTracker: the Engagement Tracker called with events of every kind    *)
(* and payload, well formed or not, while time passes and the process may  *)
(* restart.  What the call did (returned or raised) is kept in out.        *)
(***************************************************************************)
TrackerKinds == {"service_view", "payment_confirmation", "button_click"}

TrackerPlans == {"monthly", "premium_vip_ea"}

TrackerPayloads ==
    {[service |-> sv] : sv \in ViewServices} \cup {[plan |-> pl] : pl \in TrackerPlans}
    \cup {NoData, NoPayload}

(* the payload as the event record keeps it: its key and the value *)
PayloadTag(data) ==
    IF data = NoPayload THEN Btn("none", "")
    ELSE IF "service" \in DOMAIN data THEN Btn("service", data["service"])
    ELSE IF "plan" \in DOMAIN data THEN Btn("plan", data["plan"])
    ELSE Btn("empty", "")

TrackEvent(u, kind, data) ==
    /\ Idling
    /\ kind = "service_view" => SumViews(service_views) < MaxViews
    /\ kind = "payment_confirmation" => Len(purchases) < MaxPayments
    /\ LET R == log_user_interaction(Cur, u, kind, data, now)
       IN Commit([R EXCEPT !.out = <<Node(IF R.exc THEN "raised" ELSE "returned", None)>>])
    /\ last' = Event(kind, u, PayloadTag(data), 0)
    /\ now' = now

NextTracker ==
    \/ \E u \in EngineUsers, kind \in TrackerKinds, data \in TrackerPayloads :
            TrackEvent(u, kind, data)
    \/ Return
    \/ Tick
    \/ Restart

SpecTracker == Init /\ [][NextTracker]_vars

(***************************************************************************)
(* SpecProbe: the states one user can bring the system to (entry under any *)
(* campaign token, an offer, a payment, a follow-up answer, a detail node, *)
(* a restart), in which the router is then examined for every identifier.  *)
(***************************************************************************)
ProbeButtons ==
    {Btn("", "special_challenge"), Btn("payment_made_", "monthly"),
     Btn("followup_", "questions"), Btn("", "ea_results")}

ProbeEnvs == {EnvOk, [EnvOk EXCEPT !.answer = FALSE]}

NextProbe ==
    \/ \E u \in EngineUsers, c \in Campaigns : Start(u, c, EnvOk)
    \/ \E u \in EngineUsers, d \in ProbeButtons, env \in ProbeEnvs : RouterClick(u, d, env)
    \/ Return
    \/ Restart

SpecProbe == Init /\ [][NextProbe]_vars

(***************************************************************************)
(* SpecLive: the follow-up engine with the scheduling the job queue and    *)
(* the dispatcher give.  Time passes, a handler that has started returns,  *)
(* and a pending job that is due is run; users and restarts are under no   *)
(* obligation.  A follow-up is scheduled only while its due time lies      *)
(* within the horizon of the model, so every registered timer can fire.    *)
(***************************************************************************)
LiveButtons ==
    {Btn("", "special_challenge"), Btn("purchase_", "monthly"),
     Btn("payment_made_", "monthly"), Btn("followup_", "questions"),
     Btn("", "ea_results")}

LiveClick(u, d, env) ==
    /\ SchedulingButton(d) => now + FollowupDelay <= MaxTime
    /\ ButtonClick(u, d, env)

NextLive ==
    \/ \E u \in EngineUsers, d \in LiveButtons, env \in StartEnvs : LiveClick(u, d, env)
    \/ \E i \in 1..MaxFollowups, send \in FireOutcomes : FireTimer(i, send)
    \/ Return
    \/ Tick
    \/ Restart

Fairness ==
    /\ WF_vars(Return)
    /\ WF_vars(Tick)
    /\ \A i \in 1..MaxFollowups : WF_vars(\E send \in FireOutcomes : FireTimer(i, send))

SpecLive == Init /\ [][NextLive]_vars /\ Fairness

(***************************************************************************)
(* SpecFire: the fire procedure schedule_followup run as a job callback,   *)
(* with job.data naming a user and a service, in the states the offers,    *)
(* payments and follow-up answers of that user lead to.  Each run draws    *)
(* the outcome of its send_message and of its send_photo calls.  Whether   *)
(* the run returned or raised is appended to out.                          *)
(***************************************************************************)
FireButtons ==
    {Btn("", "special_challenge"), Btn("purchase_", "monthly"),
     Btn("payment_made_", "monthly"), Btn("followup_", "questions")}

FireServices == {"challenge", "ea"}

(* what the gateway did to a run, as the event record keeps it *)
FireTag(send) ==
    IF ~send.message THEN "message_failed"
    ELSE IF PhotoRaised(send.photos) THEN "photo_failed"
    ELSE "all_sent"

FollowupRun(u, service, send) ==
    /\ Idling
    /\ Commit(Returned(schedule_followup(Cur, u, service, send), None))
    /\ last' = Event("schedule_followup", u, Btn(FireTag(send), service), 0)
    /\ now' = now

NextFire ==
    \/ \E u \in EngineUsers, d \in FireButtons : ButtonClick(u, d, EnvOk)
    \/ \E u \in EngineUsers, service \in FireServices, send \in FireOutcomes :
            FollowupRun(u, service, send)
    \/ Return

SpecFire == Init /\ [][NextFire]_vars

(***************************************************************************)
(* SpecPair: two users on one bot.  Each takes an offer, confirms a payment *)
(* and has a service view recorded, in any interleaving, while time passes *)
(* and timers fire.                                                        *)
(***************************************************************************)
PairButtons == {Btn("", "special_challenge"), Btn("payment_made_", "monthly")}

PairView == [service |-> "ea"]

NextPair ==
    \/ \E u \in Users, d \in PairButtons : ButtonClick(u, d, EnvOk)
    \/ \E u \in Users : TrackEvent(u, "service_view", PairView)
    \/ \E i \in 1..MaxFollowups, send \in FireOutcomes : FireTimer(i, send)
    \/ Return
    \/ Tick

SpecPair == Init /\ [][NextPair]_vars

(***************************************************************************)
(* Properties.                                                             *)
(***************************************************************************)
Rows(u) == {i \in DOMAIN followups : followups[i].user_id = u}

ScheduledRows(u) == {i \in Rows(u) : followups[i].status = "scheduled"}

FollowupTimers(u) ==
    {i \in DOMAIN jobs : jobs[i].name[1] = "followup" /\ jobs[i].name[2] = u}

PurchaseRows(u) == {i \in DOMAIN purchases : purchases[i].user_id = u}

Purchased(u) == users[u].exists /\ users[u].purchased

CallsOf(fn) == {i \in DOMAIN calls : calls[i].fn = fn}

(* the rows a timer event is about: same user, service and time *)
TimerRows ==
    {i \in Rows(last.user) :
        /\ followups[i].service = last.data.a
        /\ followups[i].scheduled_date = last.due}

(* what a follow-up timer can deliver to the user *)
Reengagement == {m \in Range(out) : m.node \in {"followup_message", "testimonial"}}

TimerFired == last.op = "timer"

PaymentProcessed(u) ==
    /\ last.op = "button_click"
    /\ last.user = u
    /\ last.data.p = "payment_made_"
    /\ CallsOf("get_jobs_by_name") # {}

(* C1: when a follow-up timer fires for a user whose persisted purchased
   flag is true at that time, no re-engagement message is sent to the user. *)
C1_NoMessageWhenPurchased ==
    (TimerFired /\ Purchased(last.user)) => Reengagement = {}

C1_Witness ==
    /\ TimerFired
    /\ Purchased(last.user)
    /\ TimerRows # {}

(* C2: if the user purchased after a follow-up was scheduled and before its
   timer fired, then once the timer has fired that FollowUp row is not in
   status scheduled. *)
C2_FiredRowTerminal ==
    (TimerFired /\ Purchased(last.user)) =>
        \A i \in TimerRows : followups[i].status # "scheduled"

C2_Witness ==
    /\ TimerFired
    /\ Purchased(last.user)
    /\ \E i \in TimerRows : followups[i].status = "canceled"

(* C3: in every reachable state and for every user, the persisted purchased
   flag is true exactly when the user has at least one Purchase row. *)
C3_PurchasedIffPurchaseRow ==
    \A u \in Users : Purchased(u) <=> PurchaseRows(u) # {}

C3_Witness ==
    \E u \in Users : PaymentProcessed(u) /\ Purchased(u) /\ PurchaseRows(u) # {}

(* C4: a call of schedule_user_followup for a user whose purchased flag is
   true creates no FollowUp row and registers no timer, and once a user is
   purchased the number of the user's FollowUp rows never grows. *)
C4_Step ==
    \A u \in Users :
        Purchased(u) =>
            /\ Cardinality({i \in DOMAIN followups' : followups'[i].user_id = u})
                   <= Cardinality(Rows(u))
            /\ (\E i \in DOMAIN calls' :
                    /\ calls'[i].fn = "schedule_user_followup"
                    /\ calls'[i].user_id = u)
               => followups' = followups /\ jobs' = jobs

C4_ScheduleNoOpWhenPurchased == [][C4_Step]_vars

C4_Witness ==
    /\ last.op = "button_click"
    /\ Purchased(last.user)
    /\ PurchaseRows(last.user) # {}
    /\ last.data.p # "payment_made_"
    /\ CallsOf("schedule_user_followup") # {}

(* C5: after a payment confirmation for user u has been processed, no
   follow-up timer registered for u remains pending in the job queue. *)
C5_NoTimerAfterPayment ==
    \A u \in Users : PaymentProcessed(u) => FollowupTimers(u) = {}

(* C6: a payment confirmation for user u turns every FollowUp row of u that
   was in status scheduled into status canceled, and a purchased user has no
   row in status scheduled. *)
C6_Step ==
    \A u \in Users :
        /\ PaymentProcessed(u)' =>
              \A i \in ScheduledRows(u) : followups'[i].status = "canceled"
        /\ Purchased(u)' =>
              \A i \in DOMAIN followups' :
                  followups'[i].user_id = u => followups'[i].status # "scheduled"

C6_PaymentCancelsScheduledRows == [][C6_Step]_vars

C6_Witness ==
    \E u \in Users :
        /\ PaymentProcessed(u)
        /\ Cardinality({i \in Rows(u) : followups[i].status = "canceled"}) = 2

(* C7: the cancellation step of a payment confirmation, run for a user with
   no FollowUp row in status scheduled and no pending timer, raises no error
   and leaves the FollowUp table as it was. *)
C7_Step ==
    \A u \in Users :
        (PaymentProcessed(u)' /\ ScheduledRows(u) = {} /\ FollowupTimers(u) = {}) =>
            /\ followups' = followups
            /\ jobs' = jobs
            /\ \A m \in Range(out') : m.node # "apology"

C7_CancelWithNothingPending == [][C7_Step]_vars

C7_Witness ==
    \E u \in Users :
        /\ PaymentProcessed(u)
        /\ \E i \in Rows(u) : followups[i].status = "responded"
        /\ \A i \in Rows(u) : followups[i].status # "canceled"
        /\ FollowupTimers(u) = {}

(* C8: when the timer registered by schedule_user_followup for (user,
   service) fires and the user has not purchased, the re-engagement message
   of that service is sent and the FollowUp row ends in status sent, or
   failed if the send raised. *)
C8_FireSendsAndMarks ==
    (TimerFired /\ ~Purchased(last.user)) =>
        /\ \A i \in TimerRows : followups[i].status \in {"sent", "failed"}
        /\ (\E i \in TimerRows : followups[i].status = "sent")
              => Node("followup_message", last.data.a) \in Range(out)

(* the callback the timer is meant to carry: the fire procedure *)
FireProcedure == "schedule_followup"

(* C9: scheduling a follow-up for a user who has not purchased creates
   exactly one FollowUp row for (user, service) with status scheduled and
   scheduled_time = now + delay, and registers exactly one timer with that
   delay whose callback is the fire procedure for (user, service). *)
C9_Step ==
    \A i \in DOMAIN calls' :
        (calls'[i].fn = "schedule_user_followup" /\ ~Purchased(calls'[i].user_id)) =>
            /\ followups' = Append(followups,
                   [user_id |-> calls'[i].user_id, service |-> calls'[i].arg,
                    scheduled_date |-> now + FollowupDelay,
                    status |-> "scheduled", response |-> None])
            /\ jobs' = Append(jobs,
                   [name |-> FollowupJobName(calls'[i].user_id, calls'[i].arg),
                    due |-> now + FollowupDelay, callback |-> FireProcedure])

C9_ScheduleCreatesRowAndTimer == [][C9_Step]_vars

(* the service tag of the offer behind an identifier *)
OfferService(d) ==
    CASE d = Btn("", "premium_vip_ea") -> "vip_ea"
      [] d = Btn("", "special_challenge") -> "challenge"
      [] d = Btn("", "copytrade_lifetime") -> "copytrade"
      [] d.p = "" /\ d.a \in {"standard_trial", "standard_monthly", "standard_lifetime"}
            -> "standard"
      [] d.p = "" /\ d.a \in {"vip_monthly", "vip_lifetime"} -> "vip"
      [] d.p = "purchase_" /\ d.a \in {"monthly", "quarterly", "annual"} -> "ea"
      [] d.p = "purchase_" /\ d.a = "copytrade" -> "copytrade"
      [] d.p = "purchase_" /\ d.a = "Standard Trial" -> "standard"
      [] d.p = "purchase_" /\ d.a = "VIP Monthly" -> "vip"
      [] OTHER -> None

(* C10: for every Offer button and every purchase_<plan> selection of a user
   who has not purchased, the router calls the follow-up scheduler with the
   service tag of that offer. *)
C10_OfferSchedulesItsService ==
    (/\ last.op = "button_click"
     /\ SchedulingButton(last.data)
     /\ ~Purchased(last.user)
     /\ \E m \in Range(out) : m.node \in {"offer", "payment_instructions"})
    => \E i \in CallsOf("schedule_user_followup") :
           /\ calls[i].user_id = last.user
           /\ calls[i].arg = OfferService(last.data)

(* C11: selecting an informational Detail node (ea_results, ea_stats,
   ea_how_works, ea_pricing, signal_results, vip_benefits) leaves the
   FollowUp table and the pending follow-up timers as they were. *)
C11_Step ==
    (last'.op = "button_click" /\ last'.data.p = "" /\ last'.data.a \in DetailButtons)
    => followups' = followups /\ jobs' = jobs

C11_DetailLeavesFollowups == [][C11_Step]_vars

C11_Witness ==
    /\ last.op = "button_click"
    /\ last.data = Btn("", "vip_benefits")
    /\ Node("detail", "vip_benefits") \in Range(out)
    /\ ScheduledRows(last.user) # {}
    /\ FollowupTimers(last.user) # {}

(* the Entry variant that belongs to a campaign token *)
EntryVariant(c) ==
    CASE c = "ea_campaign" -> "ea"
      [] c = "signal_campaign" -> "signal"
      [] c = "vip_campaign" -> "vip"
      [] OTHER -> "default"

(* C12: the entry command presents the ea-focused Entry for ea_campaign, the
   signal-focused Entry for signal_campaign, the vip-focused Entry for
   vip_campaign and the default Entry for an absent or any other token, and
   presents exactly one Entry node (none only when every send of the run
   failed). *)
C12_Step ==
    \A u \in Users, c \in Campaigns, env \in EntryEnvs :
        Start(u, c, env) =>
            out' = IF env.primary \/ env.fallback
                   THEN <<Node("entry", EntryVariant(c))>>
                   ELSE <<>>

C12_EntryFollowsToken == [][C12_Step]_vars

C12_Witness ==
    /\ last.op = "start"
    /\ last.data.a = "vip_campaign"
    /\ users[last.user].campaign = "vip_campaign"
    /\ out = <<Node("entry", "vip")>>

(* C13: the Entry variant of a user is chosen once, at first contact: after
   the first entry command of user u captured campaign c, every later entry
   command of u, whatever its token, presents the Entry variant of c. *)
C13_Step ==
    \A u \in Users, c \in Campaigns, env \in EntryEnvs :
        (Start(u, c, env) /\ users[u].exists /\ (env.primary \/ env.fallback)) =>
            out' = <<Node("entry", EntryVariant(users[u].campaign))>>

C13_EntryChosenOnce == [][C13_Step]_vars

ViewRows(u, service) ==
    {i \in DOMAIN service_views :
        service_views[i].user_id = u /\ service_views[i].service = service}

(* C14: N sequential update_service_view calls for the same (user, service),
   starting with no row, yield exactly one ServiceView row with view_count =
   N and last_viewed = the time of the last call.  Stated as the step of the
   induction on N: the first call creates the one row with count 1, every
   later call adds 1 to the count of that row, stamps it with the time of the
   call and adds no row; the rows of other services are left alone. *)
C14_Step ==
    \A u \in EngineUsers, s \in StoreServices :
        StoreUpdateServiceView(u, s, TRUE) =>
            /\ Cardinality(ViewRows(u, s)) <= 1
            /\ Len(service_views') = IF ViewRows(u, s) = {} THEN Len(service_views) + 1
                                     ELSE Len(service_views)
            /\ \A i \in DOMAIN service_views' :
                  IF service_views'[i].user_id = u /\ service_views'[i].service = s
                  THEN /\ service_views'[i].last_viewed = now
                       /\ service_views'[i].view_count =
                              IF i \in DOMAIN service_views
                              THEN service_views[i].view_count + 1
                              ELSE 1
                  ELSE service_views'[i] = service_views[i]

C14_ViewCountCountsCalls == [][C14_Step]_vars

C14_Witness ==
    /\ last.op = "update_service_view"
    /\ last.data.p = "ok"
    /\ Cardinality(ViewRows(last.user, last.data.a)) = 1
    /\ \E i \in ViewRows(last.user, last.data.a) :
           /\ service_views[i].view_count = 2
           /\ service_views[i].last_viewed = now
           /\ now > 0

(* C15: record_purchase is all-or-nothing: whatever the outcome of the
   storage, either a Purchase row was inserted and the user's purchased flag
   is true, or neither change is visible. *)
C15_Step ==
    \A u \in Users :
        LET grew == Cardinality(PurchaseRows(u)') > Cardinality(PurchaseRows(u))
        IN /\ grew => Purchased(u)'
           /\ (~Purchased(u) /\ Purchased(u)') => grew

C15_PurchaseAllOrNothing == [][C15_Step]_vars

(* C16: every Persistence Layer operation whose storage fails returns to its
   caller without raising, with a neutral value (has_purchased: false), and
   changes no table. *)
C16_Step ==
    (last'.op \in PersistenceOps /\ last'.data.p = "error") =>
        /\ UNCHANGED <<users, purchases, followups, service_views>>
        /\ interactions' = <<>>
        /\ out' = <<Node("returned",
                        IF last'.op = "has_purchased" THEN "False" ELSE None)>>

C16_StorageErrorsAreSwallowed == [][C16_Step]_vars

C16_Witness ==
    /\ last.op = "has_purchased"
    /\ last.data.p = "error"
    /\ Purchased(last.user)
    /\ out = <<Node("returned", "False")>>

(* C17: save_user is idempotent: a call with the id and the attributes the
   row already holds leaves the one row of that id with its join_date, name
   attributes, campaign and purchased flag; only last_interaction changes. *)
C17_Step ==
    \A u \in EngineUsers, n \in StoreUsernames, c \in StoreCampaigns :
        (StoreSaveUser(u, n, c, TRUE) /\ users[u].exists
            /\ users[u].username = n /\ users[u].campaign = c)
        => users'[u] = [users[u] EXCEPT !.last_interaction = now]

C17_SaveUserIdempotent == [][C17_Step]_vars

C17_Witness ==
    /\ last.op = "save_user"
    /\ last.data.p = "ok"
    /\ users[last.user].campaign = "ea_campaign"
    /\ users[last.user].purchased
    /\ users[last.user].join_date = 0
    /\ users[last.user].last_interaction = now
    /\ now > 0

(* C18: update_followup_status(user, status, response) changes exactly the
   most recent FollowUp row of that user that is in status scheduled, and
   no other row. *)
C18_Step ==
    \A k \in DOMAIN calls' :
        calls'[k].fn = "update_followup_status" =>
            LET sched == ScheduledRows(calls'[k].user_id)
                latest == {i \in sched : \A j \in sched : j <= i}
            IN \A i \in DOMAIN followups :
                   (followups'[i] # followups[i]) <=> (i \in latest)

C18_UpdatesMostRecentRowOnly == [][C18_Step]_vars

(* C19: in every reachable state each user has at most one FollowUp row in
   status scheduled. *)
C19_OneScheduledRowPerUser ==
    \A u \in Users : Cardinality(ScheduledRows(u)) <= 1

(* C20: every follow-up mutation is scoped by (user, service): when the
   follow-up of (u, s1) fires, is sent, fails or is answered, the FollowUp
   rows of u for another service keep their status and response, so the
   rows one such step changes all belong to one service, and to the service
   the answer names when it names one. *)
C20_Step ==
    (\/ last'.op = "timer"
     \/ last'.op = "button_click" /\ last'.data.p \in {"resume_", "followup_"})
    => \A i, j \in DOMAIN followups :
           (followups'[i] # followups[i] /\ followups'[j] # followups[j]) =>
               /\ followups[i].service = followups[j].service
               /\ last'.data.p = "resume_" => followups[i].service = last'.data.a

C20_MutationScopedByService == [][C20_Step]_vars

(* C21: every FollowUp row that is created eventually leaves status
   scheduled, given that time passes and every pending timer that is due
   fires; also when the user purchased before the fire and when the process
   restarted between scheduling and firing. *)
C21_RowLeavesScheduled ==
    \A i \in 1..MaxFollowups :
        (i \in DOMAIN followups /\ followups[i].status = "scheduled")
            ~> (i \in DOMAIN followups /\ followups[i].status # "scheduled")

(* the gateway outcomes of every identifier, as a table *)
EnvsOf == [d \in Buttons |-> EnvsFor(d)]

(* an identifier that no comparison and no prefix test of the router knows *)
KnownNowhere(d) ==
    d.p = "" /\ d.a \notin OfferButtons \cup DetailButtons \cup NavButtons

(* C22: a button selection whose identifier matches no known value or
   prefix is handled without raising and a generic fallback message is
   presented to the user. *)
C22_UnknownGetsFallback ==
    (last.op = "button_click" /\ KnownNowhere(last.data)) => out # <<>>

(* C23: no button selection makes button_click propagate an exception: in
   every state in which the dispatcher takes the next update, whatever the
   user, the identifier and the outcome of the gateway calls, when the try
   block raises, the except branch attempts the apology (presented when the
   edit of the original message succeeds) and the handler returns normally,
   so the dispatcher goes on to the next update. *)
C23_RouterNeverRaises ==
    Idling =>
        \A u \in EngineUsers, d \in Buttons :
            \A env \in EnvsOf[d] :
                LET body == button_click_body(Cur, u, d, env, now)
                    R == button_click(Cur, u, d, env, now)
                IN /\ ~R.exc
                   /\ (body.exc /\ env.msg /\ env.fallback) =>
                          R.out = Append(body.out, Node("apology", ""))

C23_Witness ==
    /\ last.op = "button_click"
    /\ Node("apology", "") \in Range(out)

(* the Entry node a navigation identifier names *)
NavEntry(a) ==
    CASE a = "show_all_services" -> "default"
      [] a = "back_to_ea_welcome" -> "ea"
      [] a = "back_to_signal_welcome" -> "signal"
      [] a = "back_to_vip_welcome" -> "vip"
      [] a = "back_to_ea_funnel" -> "ea"

IsEntry(m) == m.node = "entry"

(* a navigation identifier was selected with gateway outcome env *)
NavClick(env) ==
    /\ last'.op = "button_click"
    /\ last'.data.p = ""
    /\ last'.data.a \in NavButtons
    /\ env.answer
    /\ RouterClick(last'.user, last'.data, env)

(* C24: when the callback of a button selection no longer carries its
   message, each navigation-only identifier still presents the Entry node it
   names by a fresh send, provided the answer and a send succeed. *)
C24_Step ==
    \A env \in Envs :
        (~env.msg /\ (env.primary \/ env.fallback) /\ NavClick(env)) =>
            Node("entry", NavEntry(last'.data.a)) \in Range(out')

C24_NavigationWithoutMessage == [][C24_Step]_vars

(* C25: every back-navigation identifier, selected while the callback
   carries its message and the gateway works, presents exactly one Entry
   node, the one the identifier names. *)
C25_Step ==
    \A env \in Envs :
        (env.msg /\ env.primary /\ env.fallback /\ NavClick(env)) =>
            SelectSeq(out', IsEntry) = <<Node("entry", NavEntry(last'.data.a))>>

C25_BackNavigationPresentsItsEntry == [][C25_Step]_vars

(* the state of a process that has seen no update *)
Fresh ==
    [users |-> [u \in Users |-> NoUser], purchases |-> <<>>, followups |-> <<>>,
     service_views |-> <<>>, user_engagement |-> [u \in Users |-> NoEngagement],
     jobs |-> <<>>, out |-> <<>>, calls |-> <<>>, exc |-> FALSE, interactions |-> <<>>]

(* C26: the router is stateless per transition: whatever the state (the
   user's campaign, what was shown before, the purchased flag, the FollowUp
   rows), the nodes button_click presents for an identifier and given
   gateway outcomes are those it presents in a fresh process. *)
C26_RouterStateless ==
    Idling =>
        \A u \in EngineUsers, d \in Buttons :
            \A env \in EnvsOf[d] :
                button_click(Cur, u, d, env, now).out
                    = button_click(Fresh, u, d, env, 0).out

C26_Witness ==
    /\ last.op = "button_click"
    /\ users[last.user].campaign = "vip_campaign"
    /\ Purchased(last.user)
    /\ Rows(last.user) # {}
    /\ out # <<>>

(* the view count the rows hold for (u, service): 0 without a row *)
CountIn(rows, u, service) ==
    LET I == {i \in DOMAIN rows : rows[i].user_id = u /\ rows[i].service = service}
    IN IF I = {} THEN 0 ELSE rows[CHOOSE i \in I : TRUE].view_count

ViewCount(u, service) == CountIn(service_views, u, service)

NoDuplicates(q) == \A i, j \in DOMAIN q : i # j => q[i] # q[j]

(* C27: after any sequence of recorded events the projection's collection
   of viewed services of a user holds no service twice, and each
   service_view event that carries a service increases the persisted
   view_count of that (user, service) by exactly one. *)
C27_Step ==
    /\ \A u \in Users : NoDuplicates(user_engagement'[u].services_viewed)
    /\ (last'.op = "service_view" /\ last'.data.p = "service") =>
           /\ last'.data.a \in Range(user_engagement'[last'.user].services_viewed)
           /\ CountIn(service_views', last'.user, last'.data.a)
                  = CountIn(service_views, last'.user, last'.data.a) + 1

C27_ViewsCountedOnce == [][C27_Step]_vars

C27_Witness ==
    /\ last.op = "service_view"
    /\ last.data.p = "service"
    /\ ViewCount(last.user, last.data.a) = 2
    /\ Len(user_engagement[last.user].services_viewed) = 1

(* a service_view event without a service, a payment_confirmation event
   without a plan; the payload may be absent *)
Malformed(e) ==
    \/ e.op = "service_view" /\ e.data.p # "service"
    \/ e.op = "payment_confirmation" /\ e.data.p # "plan"

(* C28: recording a malformed event logs the base interaction (the user's
   row exists and carries the time of the event), performs none of the
   kind-specific side effects (no view bump, no Purchase row, no purchased
   flag set in the store or the projection) and does not raise. *)
C28_Step ==
    Malformed(last') =>
        /\ out' = <<Node("returned", None)>>
        /\ users'[last'.user].exists
        /\ users'[last'.user].last_interaction = now
        /\ service_views' = service_views
        /\ purchases' = purchases
        /\ users'[last'.user].purchased = users[last'.user].purchased
        /\ user_engagement'[last'.user].purchased = user_engagement[last'.user].purchased

C28_MalformedEventSkipped == [][C28_Step]_vars

(* the plan codes of the plan-to-price table *)
PricedPlans ==
    {"monthly", "quarterly", "annual", "copytrade", "standard_trial", "standard_monthly",
     "standard_lifetime", "vip_monthly", "vip_lifetime"}

(* C29: a payment confirmation whose answers succeed, for any plan code,
   records a Purchase with that plan code (with price "Unknown" when the
   plan is not in the price table) and leaves the user's purchased flag
   true. *)
C29_Step ==
    (last'.op = "button_click" /\ last'.data.p = "payment_made_") =>
        \A env \in EnvsOf[last'.data] :
            (env.answer /\ env.answer2 /\ RouterClick(last'.user, last'.data, env)) =>
                /\ \E i \in DOMAIN purchases' \ DOMAIN purchases :
                       /\ purchases'[i].user_id = last'.user
                       /\ purchases'[i].plan_code = last'.data.a
                       /\ last'.data.a \notin PricedPlans => purchases'[i].price = "Unknown"
                /\ users'[last'.user].exists
                /\ users'[last'.user].purchased

C29_AnyPlanIsRecorded == [][C29_Step]_vars

C29_Witness ==
    /\ last.op = "button_click"
    /\ last.data = Btn("payment_made_", "premium_vip_ea")
    /\ \E i \in PurchaseRows(last.user) :
           purchases[i].plan_code = "premium_vip_ea" /\ purchases[i].price = "Unknown"
    /\ Purchased(last.user)

(* C30: the engagement projection is a rebuildable cache: also after it was
   discarded by a restart, once the next event of a user has been processed
   the projection entry of that user says what the persisted records say:
   its purchased flag is the user's persisted flag and its viewed services
   are those of the user's ServiceView rows. *)
C30_ProjectionMatchesStore ==
    \A u \in Users :
        user_engagement[u].present =>
            /\ user_engagement[u].purchased = Purchased(u)
            /\ Range(user_engagement[u].services_viewed)
                   = {service_views[i].service :
                          i \in {k \in DOMAIN service_views : service_views[k].user_id = u}}

(* C31: log_interaction_to_db is atomic: wherever the storage fails, either
   the interaction row is appended and the user's last_interaction is
   refreshed to the time of the call, or no row is appended and the users
   table is as it was. *)
C31_Step ==
    last'.op = "log_interaction_to_db" =>
        \/ /\ interactions' = <<Interaction(last'.user, "button_click", now)>>
           /\ users' = [users EXCEPT ![last'.user].last_interaction =
                            IF users[last'.user].exists THEN now ELSE @]
        \/ /\ interactions' = <<>>
           /\ users' = users

C31_InteractionLogAtomic == [][C31_Step]_vars

C31_Witness ==
    /\ last.op = "log_interaction_to_db"
    /\ last.data.a = "insert"
    /\ users[last.user].exists
    /\ users[last.user].last_interaction < now
    /\ interactions = <<>>

(* C32: when the fire procedure has sent the re-engagement message and a
   later testimonial image fails to send, the run does not count as failed:
   every FollowUp row of the user that was in status scheduled ends in
   status sent, none in failed, the message and the images sent before the
   failure stay sent, and the procedure returns without raising. *)
C32_Step ==
    (/\ last'.op = "schedule_followup"
     /\ last'.data.p = "photo_failed"
     /\ ~Purchased(last'.user))
    => /\ \A i \in ScheduledRows(last'.user) : followups'[i].status = "sent"
       /\ \A i \in DOMAIN followups :
              followups'[i].status = "failed" => followups[i].status = "failed"
       /\ out'[1] = Node("followup_message", last'.data.a)
       /\ out'[Len(out')] = Node("returned", None)

C32_LaterFailureKeepsSent == [][C32_Step]_vars

C32_Witness ==
    /\ last.op = "schedule_followup"
    /\ last.data.p = "photo_failed"
    /\ out = <<Node("followup_message", last.data.a),
               Node("followup_photo", last.data.a), Node("returned", None)>>
    /\ \E i \in Rows(last.user) : followups[i].status = "sent"

Terminal == {"sent", "failed", "canceled", "responded"}

(* C33: the terminal follow-up statuses are absorbing: no operation (fire,
   payment confirmation, follow-up answer, scheduling) changes the status or
   the response of a FollowUp row whose status is sent, failed, canceled or
   responded, and no row is removed. *)
C33_Step ==
    \A i \in DOMAIN followups :
        /\ i \in DOMAIN followups'
        /\ followups[i].status \in Terminal => followups'[i] = followups[i]

C33_TerminalStatusAbsorbing == [][C33_Step]_vars

C33_Witness ==
    /\ PaymentProcessed(last.user)
    /\ \E i, j \in Rows(last.user) :
           /\ followups[i].status = "sent"
           /\ followups[j].status = "canceled"
           /\ followups[j].response = "user_purchased"
           /\ followups[i].response = None

(* the rows of the timer that fires in this step, before it fires *)
FiringRows ==
    {i \in DOMAIN followups :
        /\ followups[i].user_id = last'.user
        /\ followups[i].service = last'.data.a
        /\ followups[i].scheduled_date = last'.due}

(* C34: a follow-up timer that fires sends a re-engagement message only if
   its own FollowUp row is in status scheduled at that moment; a timer whose
   row a follow-up answer of the user has marked responded sends none. *)
C34_Step ==
    last'.op = "timer" =>
        /\ Reengagement' # {} => \E i \in FiringRows : followups[i].status = "scheduled"
        /\ (\E i \in FiringRows : followups[i].status = "responded") => Reengagement' = {}

C34_TimerSendsOnlyForScheduledRow == [][C34_Step]_vars

C34_Witness ==
    /\ TimerFired
    /\ \E i \in TimerRows : followups[i].status = "responded"
    /\ ~Purchased(last.user)
    /\ Reengagement = {}

(* the services the follow-up timers and FollowUp rows of u are about *)
FollowupServices(u) ==
    {jobs[i].name[3] : i \in FollowupTimers(u)} \cup {followups[i].service : i \in Rows(u)}

(* C35: in every state between two events, for each user the pending
   follow-up timers correspond one-to-one with the user's FollowUp rows in
   status scheduled: for each service there are as many timers of (user,
   service) as scheduled rows of (user, service). *)
C35_TimersMatchScheduledRows ==
    Idling =>
        \A u \in Users : \A service \in FollowupServices(u) :
            Cardinality({i \in FollowupTimers(u) : jobs[i].name[3] = service})
                = Cardinality({i \in ScheduledRows(u) : followups[i].service = service})

(* C36: processing one payment-confirmation button event whose answers
   succeed appends exactly one Purchase row, and that row is the user's. *)
C36_Step ==
    (last'.op = "button_click" /\ last'.data.p = "payment_made_") =>
        \A env \in EnvsOf[last'.data] :
            (env.answer /\ env.answer2 /\ RouterClick(last'.user, last'.data, env)) =>
                /\ Len(purchases') = Len(purchases) + 1
                /\ purchases'[Len(purchases')].user_id = last'.user

C36_OnePurchaseRowPerPayment == [][C36_Step]_vars

(* C37: the purchased flag is monotonic: no event, timer firing or upsert
   turns a user's persisted purchased flag from true to false, and within
   one process lifetime (no restart) none turns the projection's purchased
   flag of a user from true to false. *)
C37_Step ==
    \A u \in Users :
        /\ Purchased(u) => Purchased(u)'
        /\ (user_engagement[u].purchased /\ ~Restart) => user_engagement'[u].purchased

C37_PurchasedFlagMonotonic == [][C37_Step]_vars

C37_Witness ==
    /\ last.op = "start"
    /\ Purchased(last.user)
    /\ user_engagement[last.user].purchased
    /\ users[last.user].last_interaction = now
    /\ now > 0

(* the rows of a table that belong to user u, in the order of the table *)
RowsOf(table, u) ==
    LET Mine(r) == r.user_id = u
    IN SelectSeq(table, Mine)

(* the pending timers registered for user u *)
TimersOf(queue, u) ==
    LET Mine(j) == j.name[2] = u
    IN SelectSeq(queue, Mine)

(* C38: user isolation: an event from user A (button event, recorded
   service view) or a timer firing for A leaves the User row, the
   ServiceView, Purchase and FollowUp rows, the projection entry and the
   pending timers of every other user B as they were. *)
C38_Step ==
    last'.op \in {"button_click", "service_view", "timer"} =>
        \A b \in Users \ {last'.user} :
            /\ users'[b] = users[b]
            /\ user_engagement'[b] = user_engagement[b]
            /\ RowsOf(service_views', b) = RowsOf(service_views, b)
            /\ RowsOf(purchases', b) = RowsOf(purchases, b)
            /\ RowsOf(followups', b) = RowsOf(followups, b)
            /\ TimersOf(jobs', b) = TimersOf(jobs, b)

C38_UserIsolation == [][C38_Step]_vars

C38_Witness ==
    \E b \in Users \ {last.user} :
        /\ PaymentProcessed(last.user)
        /\ \E i \in Rows(last.user) : followups[i].status = "canceled"
        /\ ScheduledRows(b) # {}
        /\ FollowupTimers(b) # {}
        /\ ViewRows(b, "ea") # {}
        /\ ~Purchased(b)

(* C39: no dead buttons: every callback identifier a keyboard of a funnel
   node or of the follow-up message carries, selected while the callback
   carries its message and every gateway call succeeds, is matched by a
   branch of the router and presents a node. *)
C39_Step ==
    (last'.op = "button_click" /\ RouterClick(last'.user, last'.data, EnvOk))
        => out' # <<>>

C39_NoDeadButtons == [][C39_Step]_vars

====
